---- MODULE Spec2Model ----
(***************************************************************************)
(* The trace-insertion tool of test-cpp/main.cpp: main() walks the .cpp    *)
(* files of a directory, parses each one, lets traverse_and_print plan one *)
(* insertion per instrumentable function_definition, applies the           *)
(* insertions in descending offset order and writes the file back.         *)
(*                                                                         *)
(* A source buffer is a sequence of one-character strings.  The syntax     *)
(* tree is the one tree-sitter hands to the tool: nodes with a type, a     *)
(* byte range [start, end), a named flag, a field name and an ordered      *)
(* list of children.  ParseTree stands for ts_parser_parse_string on a     *)
(* small C++-like language in which every keyword and identifier is one    *)
(* byte:                                                                   *)
(*    c  constexpr          k  const             T  a type                 *)
(*    f g h  identifiers    :  the scope operator ::                       *)
(*    ~  destructor tilde   *  pointer declarator                          *)
(*    ( ) parameter list    ?  a parameter list the parser could not read  *)
(*    { } compound statement  x  an expression statement                   *)
(*    M  the marker TRACE_CPUPROFILER_EVENT_SCOPE   ;  end of a statement  *)
(*    S  a local struct     d  "= default;"      space and newline         *)
(***************************************************************************)
EXTENDS Integers, Sequences, FiniteSets, TLC

(***************************************************************************)
(* Bounds of the model.                                                    *)
(***************************************************************************)
MaxRuns == 2
MaxEdits == 3

(***************************************************************************)
(* std::string: offsets are 0-based, the byte at offset p is s[p+1].       *)
(***************************************************************************)
NPOS == -1

Min(a, b) == IF a < b THEN a ELSE b

\* std::string::substr(pos, len), for pos <= size(); len is clipped.
substr(s, pos, len) == SubSeq(s, pos + 1, Min(pos + len, Len(s)))

\* std::string::find(needle): the first offset where needle occurs, or npos.
find(s, needle) ==
    LET hits == {p \in 0..(Len(s) - Len(needle)) :
                    SubSeq(s, p + 1, p + Len(needle)) = needle}
    IN  IF hits = {} THEN NPOS
        ELSE CHOOSE p \in hits : \A q \in hits : p <= q

\* std::string::insert(pos, text), for pos <= size().
insert(s, pos, text) == SubSeq(s, 1, pos) \o text \o SubSeq(s, pos + 1, Len(s))

At(s, p) == IF p < Len(s) THEN s[p + 1] ELSE "EOF"

(***************************************************************************)
(* Literals of the program, in the byte alphabet of the model.             *)
(***************************************************************************)
CONSTEXPR_TEXT == <<"c">>
MARKER == <<"M">>
TRACE_OPEN == MARKER \o <<"(">>
TRACE_CLOSE == <<")", ";">>

(***************************************************************************)
(* Syntax tree nodes.                                                      *)
(***************************************************************************)
Leaf(type, named, fld, s, e) ==
    [type |-> type, named |-> named, field |-> fld, start |-> s, end |-> e,
     children |-> <<>>]

Inner(type, fld, kids) ==
    [type |-> type, named |-> TRUE, field |-> fld,
     start |-> kids[1].start, end |-> kids[Len(kids)].end, children |-> kids]

NoNode == Leaf("", FALSE, "", 0, 0)
Fail == [ok |-> FALSE, node |-> NoNode, pos |-> 0]
Ok(n, p) == [ok |-> TRUE, node |-> n, pos |-> p]

WithField(n, fld) == [n EXCEPT !.field = fld]

Idents == {"f", "g", "h"}
Quals == {"c", "k"}

RECURSIVE SkipWs(_, _)
SkipWs(s, p) == IF At(s, p) \in {" ", "\n"} THEN SkipWs(s, p + 1) ELSE p

\* The offset after the next ";" at or after p, or the end of the buffer.
RECURSIVE AfterSemi(_, _)
AfterSemi(s, p) ==
    IF p >= Len(s) THEN Len(s)
    ELSE IF s[p + 1] = ";" THEN p + 1
    ELSE AfterSemi(s, p + 1)

\* identifier | qualified_identifier | destructor_name
ParseName(s, p, idType) ==
    IF At(s, p) = "~" /\ At(s, p + 1) \in Idents
    THEN Ok(Inner("destructor_name", "",
                  <<Leaf("~", FALSE, "", p, p + 1),
                    Leaf("identifier", TRUE, "", p + 1, p + 2)>>), p + 2)
    ELSE IF At(s, p) \in Idents /\ At(s, p + 1) = ":"
              /\ At(s, SkipWs(s, p + 2)) \in Idents
    THEN LET q == SkipWs(s, p + 2)
         IN  Ok(Inner("qualified_identifier", "",
                      <<Leaf("namespace_identifier", TRUE, "scope", p, p + 1),
                        Leaf("::", FALSE, "", p + 1, p + 2),
                        Leaf("identifier", TRUE, "name", q, q + 1)>>), q + 1)
    ELSE IF At(s, p) \in Idents
    THEN Ok(Leaf(idType, TRUE, "", p, p + 1), p + 1)
    ELSE Fail

\* function_declarator (name, parameters) | pointer_declarator
RECURSIVE ParseDeclarator(_, _, _)
ParseDeclarator(s, p, idType) ==
    IF At(s, p) = "*"
    THEN LET r == ParseDeclarator(s, SkipWs(s, p + 1), idType)
         IN  IF r.ok
             THEN Ok(Inner("pointer_declarator", "",
                           <<Leaf("*", FALSE, "", p, p + 1),
                             WithField(r.node, "declarator")>>), r.pos)
             ELSE Fail
    ELSE LET nm == ParseName(s, p, idType)
             q == SkipWs(s, nm.pos)
             q2 == SkipWs(s, q + 1)
         IN  IF ~nm.ok THEN Fail
             ELSE IF At(s, q) = "(" /\ At(s, q2) = ")"
             THEN Ok(Inner("function_declarator", "",
                       <<WithField(nm.node, "declarator"),
                         Inner("parameter_list", "parameters",
                               <<Leaf("(", FALSE, "", q, q + 1),
                                 Leaf(")", FALSE, "", q2, q2 + 1)>>)>>), q2 + 1)
             ELSE IF At(s, q) = "?"
             THEN Ok(Inner("function_declarator", "",
                       <<WithField(nm.node, "declarator"),
                         Leaf("ERROR", TRUE, "", q, q + 1)>>), q + 1)
             ELSE Fail

\* The type qualifiers at p: [nodes, pos].
RECURSIVE ParseQuals(_, _)
ParseQuals(s, p) ==
    IF At(s, p) \in Quals
    THEN LET r == ParseQuals(s, SkipWs(s, p + 1))
         IN  [nodes |-> <<Leaf("type_qualifier", TRUE, "", p, p + 1)>> \o r.nodes,
              pos |-> r.pos]
    ELSE [nodes |-> <<>>, pos |-> p]

RECURSIVE ParseItems(_, _, _), ParseItem(_, _, _), ParseCompound(_, _),
          ParseFunction(_, _, _), ParseStruct(_, _)

\* compound_statement: "{", the statements, "}" (absent when the input ends).
ParseCompound(s, p) ==
    LET r == ParseItems(s, p + 1, "body")
        open == <<Leaf("{", FALSE, "", p, p + 1)>>
    IN  IF At(s, r.pos) = "}"
        THEN Ok(Inner("compound_statement", "",
                      open \o r.nodes \o <<Leaf("}", FALSE, "", r.pos, r.pos + 1)>>),
                r.pos + 1)
        ELSE Ok(Inner("compound_statement", "", open \o r.nodes), r.pos)

\* function_definition: qualifiers, type, qualifiers, declarator, body.
ParseFunction(s, p, ctx) ==
    LET q1 == ParseQuals(s, p)
        tp == q1.pos
        q2 == ParseQuals(s, SkipWs(s, tp + 1))
        dc == ParseDeclarator(s, q2.pos,
                  IF ctx = "class" THEN "field_identifier" ELSE "identifier")
        bp == SkipWs(s, dc.pos)
        head == q1.nodes \o <<Leaf("primitive_type", TRUE, "type", tp, tp + 1)>>
                  \o q2.nodes \o <<WithField(dc.node, "declarator")>>
    IN  IF At(s, tp) # "T" THEN Fail
        ELSE IF ~dc.ok THEN Fail
        ELSE IF At(s, bp) = "{"
        THEN LET b == ParseCompound(s, bp)
             IN  Ok(Inner("function_definition", "",
                          head \o <<WithField(b.node, "body")>>), b.pos)
        ELSE IF At(s, bp) = "d"
        THEN Ok(Inner("function_definition", "",
                      head \o <<Leaf("default_method_clause", TRUE, "", bp, bp + 1)>>),
                bp + 1)
        ELSE Fail

\* struct_specifier: "S", "{", member function definitions, "}".
ParseStruct(s, p) ==
    LET q == SkipWs(s, p + 1)
        r == ParseItems(s, q + 1, "class")
    IN  IF At(s, q) = "{" /\ At(s, r.pos) = "}"
        THEN Ok(Inner("struct_specifier", "",
                      <<Leaf("S", FALSE, "", p, p + 1), Leaf("{", FALSE, "", q, q + 1)>>
                        \o r.nodes \o <<Leaf("}", FALSE, "", r.pos, r.pos + 1)>>),
                r.pos + 1)
        ELSE Fail

\* One item at p (p is not white space, not "}" and not the end).
ParseItem(s, p, ctx) ==
    LET c == At(s, p)
        fn == ParseFunction(s, p, ctx)
        st == ParseStruct(s, p)
        err == Ok(Leaf("ERROR", TRUE, "", p, p + 1), p + 1)
    IN  IF c = "x" /\ ctx = "body"
        THEN Ok(Leaf("expression_statement", TRUE, "", p, p + 1), p + 1)
        ELSE IF c = "M" /\ ctx = "body"
        THEN Ok(Leaf("expression_statement", TRUE, "", p, AfterSemi(s, p)),
                AfterSemi(s, p))
        ELSE IF c = "{" /\ ctx = "body" THEN ParseCompound(s, p)
        ELSE IF c = "S" /\ ctx # "class" THEN (IF st.ok THEN st ELSE err)
        ELSE IF c \in Quals \cup {"T"} /\ ctx # "body"
        THEN (IF fn.ok THEN fn ELSE err)
        ELSE err

\* The items from p up to a "}" or the end of the buffer: [nodes, pos].
ParseItems(s, p, ctx) ==
    LET q == SkipWs(s, p)
    IN  IF q >= Len(s) \/ (At(s, q) = "}" /\ ctx # "top")
        THEN [nodes |-> <<>>, pos |-> q]
        ELSE LET it == ParseItem(s, q, ctx)
                 r == ParseItems(s, it.pos, ctx)
             IN  [nodes |-> <<it.node>> \o r.nodes, pos |-> r.pos]

\* ts_parser_parse_string followed by ts_tree_root_node: the translation unit.
ParseTree(s) ==
    [type |-> "translation_unit", named |-> TRUE, field |-> "", start |-> 0,
     end |-> Len(s), children |-> ParseItems(s, 0, "top").nodes]

(***************************************************************************)
(* TSNode handles.  A node is named by its path from the root: the indices *)
(* of the children to follow.  NullNode is TSNode(), the null node.        *)
(***************************************************************************)
NullNode == <<0>>
RootNode == <<>>
NullTree == Leaf("NULL", FALSE, "", 0, 0)

ts_node_is_null(n) == n = NullNode

RECURSIVE NodeAt(_, _)
NodeAt(t, n) == IF n = <<>> THEN t ELSE NodeAt(t.children[Head(n)], Tail(n))

ts_node_type(t, n) == NodeAt(t, n).type
ts_node_start_byte(t, n) == NodeAt(t, n).start
ts_node_end_byte(t, n) == NodeAt(t, n).end
ts_node_child_count(t, n) == Len(NodeAt(t, n).children)

ts_node_child(t, n, i) ==
    IF i < ts_node_child_count(t, n) THEN n \o <<i + 1>> ELSE NullNode

\* The indices (1-based) of the named children of n, in order.
NamedIndices(t, n) ==
    LET kids == NodeAt(t, n).children
    IN  {i \in 1..Len(kids) : kids[i].named}

ts_node_named_child_count(t, n) == Cardinality(NamedIndices(t, n))

ts_node_named_child(t, n, i) ==
    LET idx == NamedIndices(t, n)
        pick == {j \in idx : Cardinality({k \in idx : k < j}) = i}
    IN  IF pick = {} THEN NullNode ELSE n \o <<CHOOSE j \in pick : TRUE>>

ts_node_next_named_sibling(t, n) ==
    IF n = <<>> THEN NullNode
    ELSE LET parent == SubSeq(n, 1, Len(n) - 1)
             later == {j \in NamedIndices(t, parent) : j > n[Len(n)]}
         IN  IF later = {} THEN NullNode
             ELSE parent \o <<CHOOSE j \in later : \A k \in later : j <= k>>

ts_node_child_by_field_name(t, n, fld) ==
    LET kids == NodeAt(t, n).children
        hits == {i \in 1..Len(kids) : kids[i].field = fld}
    IN  IF hits = {} THEN NullNode
        ELSE n \o <<CHOOSE i \in hits : \A k \in hits : i <= k>>

\* source_code.substr(start_byte, end_byte - start_byte)
NodeCode(t, src, n) ==
    substr(src, ts_node_start_byte(t, n), ts_node_end_byte(t, n) - ts_node_start_byte(t, n))

\* The first child of n, named or not, of the given type.
ts_node_child_by_node_type(t, n, type) ==
    LET kids == NodeAt(t, n).children
        hits == {i \in 1..Len(kids) : kids[i].type = type}
    IN  IF hits = {} THEN NullNode
        ELSE n \o <<CHOOSE i \in hits : \A k \in hits : i <= k>>

\* The first named child of n of the given type.
ts_find_node_in_first_child_level_by_type(t, n, type) ==
    LET kids == NodeAt(t, n).children
        hits == {i \in NamedIndices(t, n) : kids[i].type = type}
    IN  IF hits = {} THEN NullNode
        ELSE n \o <<CHOOSE i \in hits : \A k \in hits : i <= k>>

ts_check_node_source_code(t, src, n, in_node_code) ==
    IF ~ts_node_is_null(n) THEN NodeCode(t, src, n) = in_node_code ELSE FALSE

(***************************************************************************)
(* traverse_and_print: what one iteration of its loop decides for a node.  *)
(* An outcome names the log lines written, the insertion recorded and      *)
(* whether the node's children are walked before its next sibling.         *)
(***************************************************************************)
ErrorLine(label, code) == [kind |-> "error", msg |-> label, code |-> code]
GreenLine(label, code) == [kind |-> "green", msg |-> label, code |-> code]
PlainLine(label, code) == [kind |-> "plain", msg |-> label, code |-> code]

\* A skip of an instrumented function that writes a log line.
NodeContinueLogged(t, node) ==
    [next |-> ts_node_next_named_sibling(t, node), children |-> FALSE,
     lines |-> <<ErrorLine("already instrumented", <<>>)>>, edits |-> <<>>]

\* NODE_CONTINUE
NodeContinue(t, node) ==
    [next |-> ts_node_next_named_sibling(t, node), children |-> FALSE,
     lines |-> <<>>, edits |-> <<>>]

\* A rejection that writes no log line.
NodeErrorSilent(t, node, label, code) ==
    [next |-> ts_node_next_named_sibling(t, node), children |-> FALSE,
     lines |-> <<>>, edits |-> <<>>]

\* A rejection that ends the loop instead of moving to the next sibling.
NodeErrorBreak(t, node, label, code) ==
    [next |-> NullNode, children |-> FALSE,
     lines |-> <<ErrorLine(label, code)>>, edits |-> <<>>]

\* NODE_ERROR_CONTINUE
NodeErrorContinue(t, node, label, code) ==
    [next |-> ts_node_next_named_sibling(t, node), children |-> FALSE,
     lines |-> <<ErrorLine(label, code)>>, edits |-> <<>>]

\* A rejection for a missing part that does not walk the children.
NodeErrorSkipsChildren(t, node, label, code) ==
    [next |-> ts_node_next_named_sibling(t, node), children |-> FALSE,
     lines |-> <<ErrorLine(label, code)>>, edits |-> <<>>]

\* A rejection that walks the children and does not move to the next sibling.
NodeErrorTraverseAndStay(t, node, label, code) ==
    [next |-> node, children |-> ts_node_child_count(t, node) > 0,
     lines |-> <<ErrorLine(label, code)>>, edits |-> <<>>]

\* NODE_ERROR_CONTINUE_TRAVERSE
NodeErrorContinueTraverse(t, node, label, code) ==
    [next |-> ts_node_next_named_sibling(t, node),
     children |-> ts_node_child_count(t, node) > 0,
     lines |-> <<ErrorLine(label, code)>>, edits |-> <<>>]

\* Reaching the end of the loop body: the children, then the next sibling.
FallThrough(t, node, lines, edits) ==
    [next |-> ts_node_next_named_sibling(t, node),
     children |-> ts_node_child_count(t, node) > 0,
     lines |-> lines, edits |-> edits]

\* The constexpr test: the first type_qualifier child reads "constexpr".
IsConstexpr(t, src, node) ==
    ts_check_node_source_code(t, src,
        ts_find_node_in_first_child_level_by_type(t, node, "type_qualifier"),
        CONSTEXPR_TEXT)

\* A walk that never finds a line break in a name.
NeverMultiline(function_name) == FALSE

\* function_name.find('\n') != npos
IsMultiline(function_name) == find(function_name, <<"\n">>) # NPOS

\* A planner that never recognises its own trace line.
NeverHasTraceMarker(code) == FALSE

\* first_child_node_code.find("TRACE_CPUPROFILER_EVENT_SCOPE") != npos
HasTraceMarker(code) == find(code, MARKER) # NPOS

\* A trace line that names the function by its last identifier alone.
TraceLineBareName(function_name) ==
    TRACE_OPEN \o <<function_name[Len(function_name)]>> \o TRACE_CLOSE

\* "TRACE_CPUPROFILER_EVENT_SCOPE(" + function_name + ");"
TraceLine(function_name) == TRACE_OPEN \o function_name \o TRACE_CLOSE

\* A trace line followed by none of the bytes that stand before the statement.
NoBlankChars(t, src, compound_statement_node, first_child_node) == <<>>

\* The bytes between the body's "{" and its child at index 1.
BlankChars(t, src, compound_statement_node, first_child_node) ==
    substr(src, ts_node_start_byte(t, compound_statement_node) + 1,
           ts_node_start_byte(t, first_child_node)
             - ts_node_start_byte(t, compound_statement_node) - 1)

\* The body of "if (ts_node_child_count(compound_statement_node) > 1)".
BodyOutcome(t, src, node, function_declarator_node, compound_statement_node) ==
    LET node_code == NodeCode(t, src, node)
        first_child_node == ts_node_child(t, compound_statement_node, 1)
        first_child_node_code == NodeCode(t, src, first_child_node)
        first_child_start == ts_node_start_byte(t, first_child_node)
        function_name_node ==
            ts_node_child_by_field_name(t, function_declarator_node, "declarator")
        function_name == NodeCode(t, src, function_name_node)
        trace_line == TraceLine(function_name)
                        \o BlankChars(t, src, compound_statement_node, first_child_node)
    IN  IF ts_node_is_null(first_child_node)
        THEN NodeErrorContinue(t, node, "first_child_node", node_code)
        ELSE IF ts_node_is_null(function_name_node)
        THEN NodeErrorContinue(t, node, "function_name_node", node_code)
        ELSE IF IsMultiline(function_name)
        THEN NodeErrorContinue(t, node, "function_name multiline", function_name)
        ELSE IF HasTraceMarker(first_child_node_code)
        THEN NodeContinue(t, node)
        ELSE FallThrough(t, node, <<GreenLine("function_name", function_name)>>,
                         <<[first |-> first_child_start, second |-> trace_line]>>)

\* A test of the body that asks for a named child between the delimiters.
BodyHasNamedChild(t, compound_statement_node) ==
    NamedIndices(t, compound_statement_node) # {}

\* ts_node_child_count(compound_statement_node) > 1: the delimiters count.
BodyHasChildOne(t, compound_statement_node) ==
    ts_node_child_count(t, compound_statement_node) > 1

\* The "function_definition" branch of the loop body.
FunctionOutcome(t, src, node) ==
    LET node_code == NodeCode(t, src, node)
        function_declarator_node ==
            ts_find_node_in_first_child_level_by_type(t, node, "function_declarator")
        function_declarator_identifier_node ==
            ts_find_node_in_first_child_level_by_type(t, function_declarator_node,
                                                      "identifier")
        function_declarator_field_identifier_node ==
            ts_find_node_in_first_child_level_by_type(t, function_declarator_node,
                                                      "field_identifier")
        function_declarator_qualified_identifier_node ==
            ts_find_node_in_first_child_level_by_type(t, function_declarator_node,
                                                      "qualified_identifier")
        function_declarator_parameter_list_node ==
            ts_find_node_in_first_child_level_by_type(t, function_declarator_node,
                                                      "parameter_list")
        compound_statement_node ==
            ts_node_child_by_node_type(t, node, "compound_statement")
    IN  IF IsConstexpr(t, src, node)
        THEN NodeErrorContinue(t, node, "constexpr can't trace", node_code)
        ELSE IF ts_node_is_null(function_declarator_node)
        THEN NodeErrorContinueTraverse(t, node, "function_declarator", node_code)
        ELSE IF ts_node_is_null(function_declarator_identifier_node)
                /\ ts_node_is_null(function_declarator_field_identifier_node)
                /\ ts_node_is_null(function_declarator_qualified_identifier_node)
        THEN NodeErrorContinueTraverse(t, node, "identifier", node_code)
        ELSE IF ts_node_is_null(function_declarator_parameter_list_node)
        THEN NodeErrorContinueTraverse(t, node, "parameter_list", node_code)
        ELSE IF ts_node_is_null(compound_statement_node)
        THEN NodeErrorContinue(t, node, "compound_statement", node_code)
        ELSE IF BodyHasChildOne(t, compound_statement_node)
        THEN BodyOutcome(t, src, node, function_declarator_node,
                         compound_statement_node)
        ELSE FallThrough(t, node, <<>>, <<>>)

\* One iteration of the loop of traverse_and_print on a non-null node.
NodeOutcome(t, src, node) ==
    IF ts_node_type(t, node) = "function_definition"
    THEN FunctionOutcome(t, src, node)
    ELSE FallThrough(t, node, <<>>, <<>>)

(***************************************************************************)
(* The files the tool is run on.  A file holds one function, or one        *)
(* function followed by a second one; a directory holds one or two files.  *)
(***************************************************************************)
QualTexts ==
    {<<"c", " ">>, <<"k", " ">>, <<"k", " ", "c", " ">>, <<"c", " ", "k", " ">>}

DeclTexts ==
    {<<"f", "(", ")">>, <<"f", ":", "g", "(", ")">>, <<"*", "f", "(", ")">>,
     <<"~", "f", "(", ")">>, <<"f", ":", "\n", "g", "(", ")">>, <<"f", "?">>}

BodyTexts ==
    {<<"{", "}">>,
     <<"{", " ", "x", "}">>,
     <<"{", "\n", " ", "x", " ", "x", "}">>,
     <<"{", "M", "(", "f", ")", ";", " ", "x", "}">>,
     <<"d">>,
     <<"{">>,
     <<"{", " ", "S", "{", "T", " ", "g", "(", ")", "{", "x", "}", "}", "x", "}">>,
     <<"{", "S", "{", "T", " ", "h", "(", ")", "{", "M", "(", "h", ")", ";", "x",
       "}", "}", "}">>,
     <<"{", "x", " ", "S", "{", "c", " ", "T", " ", "h", "(", ")", "{", "x", "}",
       "}", "}">>}

FuncTexts ==
    {<<"T", " ">> \o d \o b : d \in DeclTexts, b \in BodyTexts}
      \cup {q \o <<"T", " ">> \o <<"f", "(", ")">> \o <<"{", " ", "x", "}">> :
               q \in QualTexts}
      \cup {<<"T", " ", "c", " ", "f", "(", ")", "{", " ", "x", "}">>,
            <<"c", " ", "T", " ", "*", "f", "(", ")", "{", " ", "x", "}">>,
            <<"c", " ", "T", " ", "f", ":", "\n", "g", "(", ")",
              "{", "M", "(", "f", ")", ";", " ", "x", "}">>,
            <<"T", " ", "f", "(", ")", "{", "M", "(", "f", ")", ";", "S", "{",
              "T", " ", "g", "(", ")", "{", "x", "}", "}", "}">>}

SecondTexts ==
    {<<"T", " ", "g", "(", ")", "{", " ", "x", "}">>,
     <<"c", " ", "T", " ", "g", "(", ")", "{", "x", "}">>,
     <<"T", " ", "h", "(", ")", "{">>}

Sources ==
    FuncTexts \cup {a \o <<"\n">> \o b : a \in FuncTexts, b \in SecondTexts}

Directories ==
    {<<a>> : a \in Sources} \cup {<<a, b>> : a \in FuncTexts, b \in SecondTexts}

(***************************************************************************)
(* The state of a run of main().                                           *)
(***************************************************************************)
VARIABLES
    argc,          \* the argument count of the run
    disk,          \* the bytes of each .cpp file of the directory, by index
    backup,        \* the backup directories written so far, one per run
    run,           \* the number of the current run of the program
    pc,            \* where main() is
    fi,            \* the index in cpp_files of the file of the for loop
    source_code,   \* main's source_code
    tree,          \* main's tree (NullTree: no tree)
    insertions,    \* main's insertions
    stack,         \* the node of each active call of traverse_and_print
    ai,            \* the position of the loop over insertions
    log_file,      \* the lines written to the log (and to std::cout)
    log_ok,        \* whether the log stream is good (it opened, no write failed)
    visited,       \* history: the nodes the loop body ran on, with what it added
    passes,        \* history: per file, the runs that walked its tree and wrote it
    opened,        \* history: per file, how its open went in this run
    exit_code      \* the value main returned

vars == <<argc, disk, backup, run, pc, fi, source_code, tree, insertions, stack,
          ai, log_file, log_ok, visited, passes, opened, exit_code>>

locals == <<source_code, tree, insertions, stack, ai, visited>>

NumFiles == Len(disk)

Init ==
    /\ argc \in {1, 2}
    /\ disk \in Directories
    /\ backup = <<>>
    /\ run = 1
    /\ pc = "start"
    /\ fi = 0
    /\ source_code = <<>>
    /\ tree = NullTree
    /\ insertions = <<>>
    /\ stack = <<>>
    /\ ai = 0
    /\ log_file = <<>>
    /\ log_ok \in BOOLEAN
    /\ visited = <<>>
    /\ passes = [i \in 1..Len(disk) |-> 0]
    /\ opened = [i \in 1..Len(disk) |-> "none"]
    /\ exit_code = -1

\* A failed stream that throws on the next write.
StreamThrowsWhenBad(stream_ok) == ~stream_ok

\* Whether "log_file << ..." throws.  The stream is constructed with the
\* default exception mask (goodbit): a write to a failed stream does nothing
\* and throws nothing.
StreamThrows(stream_ok) == FALSE

\* log_file << lines: a stream in a failed state drops what is written to it.
Write(stream_ok, log, lines) == IF stream_ok THEN log \o lines ELSE log

\* A usage error that returns 0.
UsageReturnsZero ==
    /\ pc = "start"
    /\ argc # 2
    /\ pc' = "exit"
    /\ exit_code' = 0
    /\ UNCHANGED <<argc, disk, backup, run, fi, locals, log_file, log_ok, passes, opened>>

\* argc != 2: the usage line, return 1.
Usage ==
    /\ pc = "start"
    /\ argc # 2
    /\ pc' = "exit"
    /\ exit_code' = 1
    /\ UNCHANGED <<argc, disk, backup, run, fi, locals, log_file, log_ok, passes, opened>>

\* A backup step that creates the backup directory and copies no bytes into it.
BackupCopiesNothing ==
    /\ pc = "start"
    /\ argc = 2
    /\ backup' = Append(backup, [i \in 1..NumFiles |-> <<>>])
    /\ fi' = 1
    /\ pc' = "loop"
    /\ UNCHANGED <<argc, disk, run, locals, log_file, log_ok, passes, opened, exit_code>>

\* find_cpp_files and backup_files: every file is copied to the backup directory.
BackupFiles ==
    /\ pc = "start"
    /\ argc = 2
    /\ backup' = Append(backup, disk)
    /\ fi' = 1
    /\ pc' = "loop"
    /\ UNCHANGED <<argc, disk, run, locals, log_file, log_ok, passes, opened, exit_code>>

\* std::filesystem::copy throws: nothing catches it, the program is terminated.
BackupThrows ==
    /\ pc = "start"
    /\ argc = 2
    /\ pc' = "terminated"
    /\ UNCHANGED <<argc, disk, backup, run, fi, locals, log_file, log_ok, passes, opened, exit_code>>

\* The head of the for loop: the file is logged, opened and read.
OpenFile ==
    /\ pc = "loop"
    /\ fi <= NumFiles
    /\ log_file' = Write(log_ok, log_file, <<PlainLine("file", <<fi>>)>>)
    /\ source_code' = disk[fi]
    /\ pc' = "parse"
    /\ opened' = [opened EXCEPT ![fi] = "read"]
    /\ UNCHANGED <<argc, disk, backup, run, fi, tree, insertions, stack, ai, log_ok,
                   visited, passes, exit_code>>

\* A failed open that ends the loop over the files.
OpenFailsEndsLoop ==
    /\ pc = "loop"
    /\ fi <= NumFiles
    /\ log_file' = Write(log_ok, log_file, <<PlainLine("file", <<fi>>)>>)
    /\ fi' = NumFiles + 1
    /\ opened' = [opened EXCEPT ![fi] = "skipped"]
    /\ UNCHANGED <<argc, disk, backup, run, pc, locals, log_ok, passes, exit_code>>

\* if (!file) continue;
OpenFails ==
    /\ pc = "loop"
    /\ fi <= NumFiles
    /\ log_file' = Write(log_ok, log_file, <<PlainLine("file", <<fi>>)>>)
    /\ fi' = fi + 1
    /\ opened' = [opened EXCEPT ![fi] = "skipped"]
    /\ UNCHANGED <<argc, disk, backup, run, pc, locals, log_ok, passes, exit_code>>

\* ts_parser_parse_string gives a tree; traverse_and_print is called on its root.
ParseFile ==
    /\ pc = "parse"
    /\ tree' = ParseTree(source_code)
    /\ insertions' = <<>>
    /\ stack' = <<RootNode>>
    /\ visited' = <<>>
    /\ pc' = "traverse"
    /\ UNCHANGED <<argc, disk, backup, run, fi, source_code, ai, log_file, log_ok, passes, opened,
                   exit_code>>

\* ts_parser_parse_string gives NULL (no language, a cancelled parse).
ParseGivesNull ==
    /\ pc = "parse"
    /\ tree' = NullTree
    /\ pc' = "nulltree"
    /\ UNCHANGED <<argc, disk, backup, run, fi, source_code, insertions, stack, ai,
                   log_file, log_ok, visited, passes, opened, exit_code>>

\* ts_tree_root_node(NULL) reads through the null pointer: the process dies,
NullTreeCrash ==
    /\ pc = "nulltree"
    /\ pc' = "crashed"
    /\ UNCHANGED <<argc, disk, backup, run, fi, locals, log_file, log_ok, passes, opened, exit_code>>

\* or the read yields a node that tests null and the walk visits nothing.
NullTreeNullRoot ==
    /\ pc = "nulltree"
    /\ insertions' = <<>>
    /\ stack' = <<NullNode>>
    /\ visited' = <<>>
    /\ pc' = "traverse"
    /\ UNCHANGED <<argc, disk, backup, run, fi, source_code, tree, ai, log_file, log_ok,
                   passes, opened, exit_code>>

\* A list that takes new insertions at its front.
PushFront(list, edits) == edits \o list

\* insertions.push_back({first_child_start, trace_line})
PushBack(list, edits) == list \o edits

\* One iteration of the while loop of the innermost call of traverse_and_print.
\* An exception thrown by a write to the log would leave main() uncaught.
VisitNode ==
    /\ pc = "traverse"
    /\ stack # <<>>
    /\ ~ts_node_is_null(stack[Len(stack)])
    /\ LET node == stack[Len(stack)]
           o == NodeOutcome(tree, source_code, node)
           callers == SubSeq(stack, 1, Len(stack) - 1)
       IN  IF o.lines # <<>> /\ StreamThrows(log_ok)
           THEN /\ pc' = "terminated"
                /\ UNCHANGED <<log_file, insertions, visited, stack>>
           ELSE /\ pc' = pc
                /\ log_file' = Write(log_ok, log_file, o.lines)
                /\ insertions' = PushBack(insertions, o.edits)
                /\ visited' = Append(visited,
                                 [node |-> node, edits |-> Len(o.edits),
                                  errors |-> Len(SelectSeq(o.lines,
                                                 LAMBDA l : l.kind = "error")),
                                  msgs |-> [k \in 1..Len(o.lines) |-> o.lines[k].msg]])
                /\ stack' = IF o.children
                            THEN callers \o <<o.next, ts_node_named_child(tree, node, 0)>>
                            ELSE callers \o <<o.next>>
    /\ UNCHANGED <<argc, disk, backup, run, fi, source_code, tree, ai, log_ok,
                   passes, opened, exit_code>>

\* The while loop ends on a null node: the call returns to its caller.
TraverseReturn ==
    /\ pc = "traverse"
    /\ stack # <<>>
    /\ ts_node_is_null(stack[Len(stack)])
    /\ stack' = SubSeq(stack, 1, Len(stack) - 1)
    /\ pc' = IF Len(stack) = 1 THEN "sort" ELSE "traverse"
    /\ UNCHANGED <<argc, disk, backup, run, fi, source_code, tree, insertions, ai,
                   log_file, log_ok, visited, passes, opened, exit_code>>

(***************************************************************************)
(* The Applier: std::sort with the "greater offset first" comparator, then *)
(* one std::string::insert per insertion, then the file is overwritten.    *)
(***************************************************************************)
\* A comparator that orders by ascending offset.
CompAscending(a, b) == a.first < b.first

\* The comparator handed to std::sort.
Comp(a, b) == a.first > b.first

Orderings(n) == {f \in [1..n -> 1..n] : \A i, j \in 1..n : f[i] = f[j] => i = j}

\* What std::sort may leave: a permutation ordered by Comp.  std::sort is not
\* a stable sort: elements that compare equivalent end in an unspecified order.
SortResults(seq) ==
    {r \in {[i \in 1..Len(seq) |-> seq[f[i]]] : f \in Orderings(Len(seq))} :
        \A i, j \in 1..Len(r) : i < j => ~Comp(r[j], r[i])}

\* An insert that never throws.
InsertNeverThrows(s, pos) == FALSE

\* An insert that also refuses the last byte of the buffer.
InsertThrowsAtLastByte(s, pos) == pos + 1 >= Len(s)

\* std::string::insert throws std::out_of_range when pos > size().
InsertThrows(s, pos) == pos > Len(s)

SortInsertions ==
    /\ pc = "sort"
    /\ insertions' \in SortResults(insertions)
    /\ ai' = 1
    /\ pc' = "apply"
    /\ UNCHANGED <<argc, disk, backup, run, fi, source_code, tree, stack, log_file, log_ok,
                   visited, passes, opened, exit_code>>

\* An insert that also writes the buffer through to the file.
ApplyInsertionWriteThrough ==
    /\ pc = "apply"
    /\ ai <= Len(insertions)
    /\ ~InsertThrows(source_code, insertions[ai].first)
    /\ source_code' = insert(source_code, insertions[ai].first, insertions[ai].second)
    /\ disk' = [disk EXCEPT ![fi] = source_code']
    /\ ai' = ai + 1
    /\ UNCHANGED <<argc, backup, run, pc, fi, tree, insertions, stack, log_file, log_ok,
                   visited, passes, opened, exit_code>>

\* source_code.insert(insertion.first, insertion.second)
ApplyInsertion ==
    /\ pc = "apply"
    /\ ai <= Len(insertions)
    /\ ~InsertThrows(source_code, insertions[ai].first)
    /\ source_code' = insert(source_code, insertions[ai].first, insertions[ai].second)
    /\ ai' = ai + 1
    /\ UNCHANGED <<argc, disk, backup, run, pc, fi, tree, insertions, stack, log_file, log_ok,
                   visited, passes, opened, exit_code>>

\* The insert throws: nothing catches the exception, the program is terminated.
ApplyThrows ==
    /\ pc = "apply"
    /\ ai <= Len(insertions)
    /\ InsertThrows(source_code, insertions[ai].first)
    /\ pc' = "terminated"
    /\ UNCHANGED <<argc, disk, backup, run, fi, locals, log_file, log_ok, passes, opened, exit_code>>

\* A write-back that always overwrites the first file of the directory.
WriteFileToFirst ==
    /\ pc = "apply"
    /\ ai > Len(insertions)
    /\ disk' = [disk EXCEPT ![1] = source_code]
    /\ passes' = [passes EXCEPT ![fi] = IF tree = NullTree THEN @ ELSE @ + 1]
    /\ fi' = fi + 1
    /\ pc' = "loop"
    /\ source_code' = <<>>
    /\ tree' = NullTree
    /\ insertions' = <<>>
    /\ stack' = <<>>
    /\ ai' = 0
    /\ visited' = <<>>
    /\ UNCHANGED <<argc, backup, run, log_file, log_ok, opened, exit_code>>

\* The file is overwritten, the tree deleted, the loop moves to the next file.
WriteFile ==
    /\ pc = "apply"
    /\ ai > Len(insertions)
    /\ disk' = [disk EXCEPT ![fi] = source_code]
    /\ passes' = [passes EXCEPT ![fi] = IF tree = NullTree THEN @ ELSE @ + 1]
    /\ fi' = fi + 1
    /\ pc' = "loop"
    /\ source_code' = <<>>
    /\ tree' = NullTree
    /\ insertions' = <<>>
    /\ stack' = <<>>
    /\ ai' = 0
    /\ visited' = <<>>
    /\ UNCHANGED <<argc, backup, run, log_file, log_ok, opened, exit_code>>

\* The for loop is over: return 0.
LoopEnd ==
    /\ pc = "loop"
    /\ fi > NumFiles
    /\ pc' = "exit"
    /\ exit_code' = 0
    /\ UNCHANGED <<argc, disk, backup, run, fi, locals, log_file, log_ok, passes, opened>>

\* The program is run again on the same directory, with a new log file.
RunAgain ==
    /\ pc = "exit"
    /\ exit_code = 0
    /\ run < MaxRuns
    /\ run' = run + 1
    /\ pc' = "start"
    /\ fi' = 0
    /\ log_file' = <<>>
    /\ log_ok' \in BOOLEAN
    /\ exit_code' = -1
    /\ opened' = [i \in 1..NumFiles |-> "none"]
    /\ UNCHANGED <<argc, disk, backup, locals, passes>>

Next ==
    \/ Usage
    \/ BackupFiles
    \/ BackupThrows
    \/ OpenFile
    \/ OpenFails
    \/ ParseFile
    \/ ParseGivesNull
    \/ NullTreeCrash
    \/ NullTreeNullRoot
    \/ VisitNode
    \/ TraverseReturn
    \/ SortInsertions
    \/ ApplyInsertion
    \/ WriteFile
    \/ LoopEnd
    \/ RunAgain

Spec == Init /\ [][Next]_vars

(***************************************************************************)
(* The Applier on any edit list: the loop of main() with the list that     *)
(* traverse_and_print fills replaced by any list of at most MaxEdits       *)
(* insertions, offsets beyond the end of the buffer included.              *)
(***************************************************************************)
EditTexts == {<<"A">>, <<"B", "C">>}

EditLists(size) ==
    UNION {[1..n -> [first : 0..(size + 1), second : EditTexts]] : n \in 0..MaxEdits}

ApplierDirectories == {<<<<"a", "b">>, <<"p">>>>, <<<<>>, <<"a", "b", "c">>>>}

InitApplier ==
    /\ argc = 2
    /\ disk \in ApplierDirectories
    /\ backup = <<disk>>
    /\ run = 1
    /\ pc = "loop"
    /\ fi = 1
    /\ source_code = <<>>
    /\ tree = NullTree
    /\ insertions = <<>>
    /\ stack = <<>>
    /\ ai = 0
    /\ log_file = <<>>
    /\ log_ok = TRUE
    /\ visited = <<>>
    /\ passes = [i \in 1..Len(disk) |-> 0]
    /\ opened = [i \in 1..Len(disk) |-> "none"]
    /\ exit_code = -1

\* insertions holds any edit list when the sort is reached.
PlanAnyEdits ==
    /\ pc = "parse"
    /\ insertions' \in EditLists(Len(source_code))
    /\ pc' = "sort"
    /\ UNCHANGED <<argc, disk, backup, run, fi, source_code, tree, stack, ai, log_file, log_ok,
                   visited, passes, opened, exit_code>>

NextApplier ==
    \/ OpenFile
    \/ PlanAnyEdits
    \/ SortInsertions
    \/ ApplyInsertion
    \/ ApplyThrows
    \/ WriteFile
    \/ LoopEnd

SpecApplier == InitApplier /\ [][NextApplier]_vars

(***************************************************************************)
(* Vocabulary of the properties.                                           *)
(***************************************************************************)
\* The Applier has applied every insertion of the current file and the file
\* is not yet overwritten: disk[fi] still holds the bytes that were read.
ApplyDone == pc = "apply" /\ ai > Len(insertions)

Reverse(seq) == [i \in 1..Len(seq) |-> seq[Len(seq) + 1 - i]]

RECURSIVE SumTextLen(_)
SumTextLen(edits) ==
    IF edits = <<>> THEN 0 ELSE Len(edits[1].second) + SumTextLen(Tail(edits))

\* The positions (1-based) of the output that hold inserted bytes, for edits
\* in the order in which their texts stand in the output.
RECURSIVE InsertedPositions(_, _)
InsertedPositions(asc, shift) ==
    IF asc = <<>> THEN {}
    ELSE (asc[1].first + shift + 1)..(asc[1].first + shift + Len(asc[1].second))
           \cup InsertedPositions(Tail(asc), shift + Len(asc[1].second))

\* The bytes of out at the positions outside pos, in order.
RECURSIVE Remaining(_, _, _)
Remaining(out, pos, i) ==
    IF i > Len(out) THEN <<>>
    ELSE (IF i \in pos THEN <<>> ELSE <<out[i]>>) \o Remaining(out, pos, i + 1)

\* The bytes of out that the edits inserted, in order.
RECURSIVE Inserted(_, _, _)
Inserted(out, pos, i) ==
    IF i > Len(out) THEN <<>>
    ELSE (IF i \in pos THEN <<out[i]>> ELSE <<>>) \o Inserted(out, pos, i + 1)

RECURSIVE ConcatTexts(_)
ConcatTexts(edits) ==
    IF edits = <<>> THEN <<>> ELSE edits[1].second \o ConcatTexts(Tail(edits))

IsFunction(t, n) == ts_node_type(t, n) = "function_definition"

VisitedFunctions == {i \in 1..Len(visited) : IsFunction(tree, visited[i].node)}

(***************************************************************************)
(* C1  Idempotence.  A pass over a file that an earlier run has already    *)
(* walked and written plans no insertion at all, so the buffer it is about *)
(* to write equals the bytes the earlier pass left on disk.                *)
(***************************************************************************)
C1_SecondPassIsEmpty ==
    (pc \in {"traverse", "sort", "apply"} /\ tree # NullTree /\ passes[fi] >= 1)
        => /\ insertions = <<>>
           /\ ApplyDone => source_code = disk[fi]

\* A second pass has finished on a file that the first pass changed.
C1_Witness ==
    /\ ApplyDone
    /\ tree # NullTree
    /\ passes[fi] >= 1
    /\ disk[fi] # backup[1][fi]

(***************************************************************************)
(* C2  Offset soundness.  When the Applier has applied an edit list, the   *)
(* output is as long as the original plus all edit texts, the bytes        *)
(* outside the inserted texts are the original buffer, and the inserted    *)
(* bytes are the edit texts.                                               *)
(***************************************************************************)
C2_OffsetSoundness ==
    ApplyDone =>
        LET asc == Reverse(insertions)
            pos == InsertedPositions(asc, 0)
        IN  /\ Len(source_code) = Len(disk[fi]) + SumTextLen(insertions)
            /\ Remaining(source_code, pos, 1) = disk[fi]
            /\ Inserted(source_code, pos, 1) = ConcatTexts(asc)

\* Two edits at different offsets, inside the buffer, have been applied.
C2_Witness ==
    /\ ApplyDone
    /\ Len(insertions) >= 2
    /\ insertions[1].first # insertions[2].first
    /\ insertions[Len(insertions)].first > 0

(***************************************************************************)
(* Shapes of a function_definition node, read off the tree.                *)
(***************************************************************************)
FirstLevel(t, n, type) ==
    {i \in NamedIndices(t, n) : NodeAt(t, n).children[i].type = type}

\* Some first-level type_qualifier child reads "constexpr".
HasConstexprQualifier(t, src, n) ==
    \E i \in FirstLevel(t, n, "type_qualifier") : NodeCode(t, src, n \o <<i>>) = CONSTEXPR_TEXT

\* The node has a declarator with a name and a parameter list, and a body.
PassesStructuralChecks(t, src, n) ==
    /\ FirstLevel(t, n, "type_qualifier") # {}
         => LET q == CHOOSE i \in FirstLevel(t, n, "type_qualifier") :
                        \A k \in FirstLevel(t, n, "type_qualifier") : i <= k
            IN  NodeCode(t, src, n \o <<q>>) # CONSTEXPR_TEXT
    /\ \E d \in FirstLevel(t, n, "function_declarator") :
          /\ \E ty \in {"identifier", "field_identifier", "qualified_identifier"} :
                FirstLevel(t, n \o <<d>>, ty) # {}
          /\ FirstLevel(t, n \o <<d>>, "parameter_list") # {}
    /\ \E b \in 1..ts_node_child_count(t, n) :
          NodeAt(t, n).children[b].type = "compound_statement"

BodyOf(t, n) ==
    n \o <<CHOOSE b \in 1..ts_node_child_count(t, n) :
              NodeAt(t, n).children[b].type = "compound_statement">>

\* The body's child at index 1 holds the marker.
FirstStatementHasMarker(t, src, n) ==
    /\ PassesStructuralChecks(t, src, n)
    /\ ts_node_child_count(t, BodyOf(t, n)) > 1
    /\ \E p \in 0..Len(src) :
          /\ p >= NodeAt(t, BodyOf(t, n) \o <<2>>).start
          /\ p + Len(MARKER) <= NodeAt(t, BodyOf(t, n) \o <<2>>).end
          /\ SubSeq(src, p + 1, p + Len(MARKER)) = MARKER

SmallBody(t, src, n) ==
    PassesStructuralChecks(t, src, n) /\ ts_node_child_count(t, BodyOf(t, n)) <= 1

\* The three outcomes of a visit v of a function_definition node.
OutcomeEdit(v) == v.edits = 1 /\ v.errors = 0
OutcomeRejected(v) == v.edits = 0 /\ v.errors = 1
OutcomeSkipped(v) ==
    v.edits = 0 /\ v.errors = 0 /\ FirstStatementHasMarker(tree, source_code, v.node)

ExactlyOneOutcome(v) ==
    Cardinality({k \in 1..3 : \/ k = 1 /\ OutcomeEdit(v)
                              \/ k = 2 /\ OutcomeRejected(v)
                              \/ k = 3 /\ OutcomeSkipped(v)}) = 1

C4_ConstexprNeverEdited ==
    pc = "traverse" =>
        \A i \in VisitedFunctions :
            HasConstexprQualifier(tree, source_code, visited[i].node)
                => visited[i].edits = 0

(***************************************************************************)
(* C5  Failure isolation.  When the walk of a file is over, for every      *)
(* function_definition node that was rejected or skipped, every following  *)
(* named sibling of that node or of one of its ancestors that is a         *)
(* function_definition the Planner's checks accept has been evaluated and  *)
(* its Edit is in the list.                                                *)
(***************************************************************************)
FollowingSiblings(t, n) ==
    IF n = <<>> THEN {}
    ELSE {SubSeq(n, 1, Len(n) - 1) \o <<j>> :
            j \in {k \in NamedIndices(t, SubSeq(n, 1, Len(n) - 1)) : k > n[Len(n)]}}

\* The following siblings of n and of each ancestor of n.
NodesAfter(t, n) ==
    UNION {FollowingSiblings(t, SubSeq(n, 1, k)) : k \in 1..Len(n)}

Seen(n) == \E i \in 1..Len(visited) : visited[i].node = n /\ visited[i].edits = 1

EditOf(t, src, n) == NodeOutcome(t, src, n).edits

Eligible(t, src, n) == IsFunction(t, n) /\ EditOf(t, src, n) # <<>>

InList(e) == \E k \in 1..Len(insertions) : insertions[k] = e

C5_FailureIsolation ==
    (pc = "sort" /\ tree # NullTree) =>
        \A i \in VisitedFunctions :
            visited[i].edits = 0 =>
                \A e \in NodesAfter(tree, visited[i].node) :
                    Eligible(tree, source_code, e)
                        => Seen(e) /\ InList(EditOf(tree, source_code, e)[1])

\* A rejected function nested in a struct, and an eligible function after the
\* function that holds the struct.
C5_Witness ==
    /\ pc = "sort"
    /\ tree # NullTree
    /\ \E i \in VisitedFunctions :
          /\ visited[i].errors = 1
          /\ Len(visited[i].node) > 1
          /\ \E e \in NodesAfter(tree, visited[i].node) :
                Len(e) = 1 /\ Eligible(tree, source_code, e)

(***************************************************************************)
(* C6  While the Applier applies the sorted edits, the bytes of the        *)
(* working buffer before the offset of every edit not yet applied are the  *)
(* bytes of the original buffer before that offset.                        *)
(***************************************************************************)
Prefix(s, n) == SubSeq(s, 1, Min(n, Len(s)))

C6_PrefixUntouched ==
    pc = "apply" =>
        \A k \in ai..Len(insertions) :
            /\ Len(source_code) >= Len(disk[fi])
            /\ Prefix(source_code, insertions[k].first)
                 = Prefix(disk[fi], insertions[k].first)

\* An edit is about to be applied after an edit at a higher offset was applied.
C6_Witness ==
    /\ pc = "apply"
    /\ ai = 2
    /\ Len(insertions) >= 2
    /\ insertions[2].first < insertions[1].first
    /\ insertions[2].first > 0
    /\ source_code # disk[fi]

(***************************************************************************)
(* C7  Ties, as claimed: the sort leaves edits with equal offsets in the   *)
(* order in which the Planner discovered them, so the order of application *)
(* is a function of the edit list.                                         *)
(***************************************************************************)
\* The descending order that keeps the list order among equal offsets.
StableSortResult(seq) ==
    LET f == CHOOSE g \in Orderings(Len(seq)) :
                \A i, j \in 1..Len(seq) :
                    i < j => \/ seq[g[i]].first > seq[g[j]].first
                             \/ seq[g[i]].first = seq[g[j]].first /\ g[i] < g[j]
    IN  [i \in 1..Len(seq) |-> seq[f[i]]]

C7_TiesInDiscoveryOrder ==
    [][(pc = "sort" /\ pc' = "apply") => insertions' = StableSortResult(insertions)]_vars

(***************************************************************************)
(* C8  An edit list with an offset beyond the end of the buffer makes the  *)
(* Applier fail: the insert it is about to do throws, so it never reaches  *)
(* the end of the list with an output buffer.                              *)
(***************************************************************************)
OutOfRange == \E k \in 1..Len(insertions) : insertions[k].first > Len(disk[fi])

C8_OutOfRangeFails ==
    (pc = "apply" /\ OutOfRange) =>
        /\ ai <= Len(insertions)
        /\ InsertThrows(source_code, insertions[ai].first)

\* The insert has thrown on a list that also holds an edit inside the buffer.
C8_Witness ==
    /\ pc = "terminated"
    /\ OutOfRange
    /\ \E k \in 1..Len(insertions) : insertions[k].first <= Len(disk[fi])

(***************************************************************************)
(* C9  Applier failure, as claimed: a failure on one file abandons that    *)
(* file only, so the program is never ended by it while a later file of    *)
(* the list is still to be processed.                                      *)
(***************************************************************************)
C9_RunContinuesAfterFailure == ~(pc = "terminated" /\ fi < NumFiles)

(***************************************************************************)
(* C10  Null tree, as claimed: when the parser gives no tree, the next     *)
(* step of the run is the next file of the list, with no walk and no file  *)
(* written.                                                                *)
(***************************************************************************)
C10_NullTreeSkipsFile ==
    [][pc = "nulltree" => (pc' = "loop" /\ fi' = fi + 1 /\ disk' = disk)]_vars

(***************************************************************************)
(* C11.  Backup before overwrite: whenever a step overwrites a source file *)
(* (the write-back of the for loop, or any step that changes the bytes of  *)
(* a file), the backup directory of the current run already exists and     *)
(* holds, under the same relative path, the bytes the file had before the  *)
(* step.  A run whose backup step failed has no backup directory, so none  *)
(* of its steps overwrites a file.                                         *)
(***************************************************************************)
WritesBack(i) == (pc = "apply" /\ pc' = "loop" /\ i = fi) \/ disk'[i] # disk[i]

C11_BackupBeforeOverwrite ==
    [][\A i \in 1..NumFiles :
          WritesBack(i) => /\ Len(backup) = run
                           /\ backup[run][i] = disk[i]]_vars

\* The first file has been overwritten with instrumented bytes and the backup
\* of the run holds the bytes the file had when the run started.
C11_Witness ==
    /\ pc = "loop"
    /\ fi > 1
    /\ Len(backup) = run
    /\ disk[1] # backup[run][1]
    /\ Len(disk[1]) > Len(backup[run][1])

(***************************************************************************)
(* C12.  Insertion point and indentation: for a function that passes every *)
(* check, is not yet instrumented and has a body of more than one child,   *)
(* the walk adds exactly one insertion; its offset is the start byte of    *)
(* the body's child at index 1 and its text is the trace statement for the *)
(* function's name followed by exactly the bytes that stand between the    *)
(* body's "{" and that child.                                              *)
(***************************************************************************)
\* The node in the "declarator" field of the function's function_declarator.
NameNodeOf(t, n) ==
    LET decls == FirstLevel(t, n, "function_declarator")
        d == n \o <<CHOOSE i \in decls : \A k \in decls : i <= k>>
    IN  d \o <<CHOOSE i \in 1..ts_node_child_count(t, d) :
                  NodeAt(t, d).children[i].field = "declarator">>

NameOf(t, src, n) ==
    SubSeq(src, NodeAt(t, NameNodeOf(t, n)).start + 1, NodeAt(t, NameNodeOf(t, n)).end)

\* The function passes the seven checks of the walk.
Instrumentable(t, src, n) ==
    /\ PassesStructuralChecks(t, src, n)
    /\ ts_node_child_count(t, BodyOf(t, n)) > 1
    /\ \A p \in 1..Len(NameOf(t, src, n)) : NameOf(t, src, n)[p] # "\n"
    /\ ~FirstStatementHasMarker(t, src, n)

\* The position in insertions of what the i-th visit added, during the walk.
EditIndex(i) == Cardinality({j \in 1..i : visited[j].edits > 0})

\* The bytes after the body's "{" up to its child at index 1.
BytesBeforeFirstStatement(t, src, n) ==
    SubSeq(src, NodeAt(t, BodyOf(t, n)).start + 2, NodeAt(t, BodyOf(t, n) \o <<2>>).start)

C12_InsertionPointAndIndentation ==
    pc = "traverse" /\ tree # NullTree =>
        \A i \in VisitedFunctions :
            Instrumentable(tree, source_code, visited[i].node) =>
                /\ visited[i].edits = 1
                /\ insertions[EditIndex(i)].first
                     = NodeAt(tree, BodyOf(tree, visited[i].node) \o <<2>>).start
                /\ insertions[EditIndex(i)].second
                     = MARKER \o <<"(">> \o NameOf(tree, source_code, visited[i].node)
                         \o <<")", ";">>
                         \o BytesBeforeFirstStatement(tree, source_code, visited[i].node)

\* Two functions of one file have been given an insertion, one of them with a
\* line break and a blank between the "{" and the first statement.
C12_Witness ==
    /\ pc = "traverse"
    /\ tree # NullTree
    /\ Len(insertions) = 2
    /\ \E i \in VisitedFunctions :
          /\ Instrumentable(tree, source_code, visited[i].node)
          /\ BytesBeforeFirstStatement(tree, source_code, visited[i].node) = <<"\n", " ">>

(***************************************************************************)
(* C13.  Name extraction: the text of every insertion added for a function *)
(* starts with the trace statement for the exact source text of the node   *)
(* in the "declarator" field of its function_declarator, qualification     *)
(* included; for a qualified name it is not the trace statement for the    *)
(* bare identifier inside the qualified name.                              *)
(***************************************************************************)
StartsWith(s, prefix) == Len(s) >= Len(prefix) /\ SubSeq(s, 1, Len(prefix)) = prefix

\* The identifiers inside the name node of the function, as source text.
BareIdentifiersOf(t, src, n) ==
    {SubSeq(src, NodeAt(t, NameNodeOf(t, n) \o <<k>>).start + 1,
                 NodeAt(t, NameNodeOf(t, n) \o <<k>>).end) :
        k \in NamedIndices(t, NameNodeOf(t, n))}

C13_NameIsDeclaratorFieldText ==
    pc = "traverse" /\ tree # NullTree =>
        \A i \in VisitedFunctions :
            visited[i].edits > 0 =>
                LET text == insertions[EditIndex(i)].second
                    n == visited[i].node
                IN  /\ StartsWith(text, MARKER \o <<"(">> \o NameOf(tree, source_code, n)
                                          \o <<")", ";">>)
                    /\ \A bare \in BareIdentifiersOf(tree, source_code, n) :
                          ~StartsWith(text, MARKER \o <<"(">> \o bare \o <<")", ";">>)

\* A function with a qualified name has been given an insertion.
C13_Witness ==
    /\ pc = "traverse"
    /\ tree # NullTree
    /\ \E i \in VisitedFunctions :
          /\ visited[i].edits > 0
          /\ ts_node_type(tree, NameNodeOf(tree, visited[i].node)) = "qualified_identifier"
          /\ BareIdentifiersOf(tree, source_code, visited[i].node) # {}

(***************************************************************************)
(* C14.  Steady state: a visited function that passes the constexpr,       *)
(* declarator, name, parameter-list and body checks and whose body's child *)
(* at index 1 already contains the trace marker adds no insertion and      *)
(* writes no diagnostic.                                                   *)
(***************************************************************************)
C14_SteadyState ==
    pc = "traverse" /\ tree # NullTree =>
        \A i \in VisitedFunctions :
            FirstStatementHasMarker(tree, source_code, visited[i].node) =>
                visited[i].edits = 0 /\ visited[i].msgs = <<>>

NameIsOneLine(t, src, n) ==
    \A p \in 1..Len(NameOf(t, src, n)) : NameOf(t, src, n)[p] # "\n"

\* C14 for the functions whose name holds no line break: the multiline test
\* of the name stands before the marker test.
C14_SteadyStateOfOneLineNames ==
    pc = "traverse" /\ tree # NullTree =>
        \A i \in VisitedFunctions :
            /\ FirstStatementHasMarker(tree, source_code, visited[i].node)
            /\ NameIsOneLine(tree, source_code, visited[i].node)
            => visited[i].edits = 0 /\ visited[i].msgs = <<>>

\* The second run visits a function that the first run instrumented.
C14_Witness ==
    /\ pc = "traverse"
    /\ tree # NullTree
    /\ run = 2
    /\ disk[fi] # backup[1][fi]
    /\ \E i \in VisitedFunctions :
          /\ FirstStatementHasMarker(tree, source_code, visited[i].node)
          /\ NameIsOneLine(tree, source_code, visited[i].node)
          /\ visited[i].edits = 0

(***************************************************************************)
(* C15.  Exit codes: a run that is not given exactly one directory         *)
(* argument returns a non-zero code and makes no backup, reads no source   *)
(* file and changes no source file; a run given one directory returns 0    *)
(* once its loop over the files has passed the last file, whatever         *)
(* happened to each file and each function, and returns nothing else.      *)
(***************************************************************************)
C15_ExitCodes ==
    /\ [](argc # 2 => /\ pc \in {"start", "exit"}
                      /\ backup = <<>>
                      /\ source_code = <<>>
                      /\ \A i \in 1..NumFiles : passes[i] = 0
                      /\ (pc = "exit" => exit_code # 0 /\ exit_code # -1))
    /\ [][argc # 2 => disk' = disk]_vars
    /\ [](argc = 2 /\ pc = "exit" => exit_code = 0 /\ fi > NumFiles)
    /\ [](exit_code # -1 => pc = "exit")
    /\ [][argc = 2 /\ pc = "loop" /\ fi > NumFiles => pc' = "exit" /\ exit_code' = 0]_vars

\* A run over two files returns 0: the first file was never walked, the second
\* was walked and written, and a function of it was rejected with a diagnostic.
C15_Witness ==
    /\ pc = "exit"
    /\ exit_code = 0
    /\ run = 1
    /\ NumFiles = 2
    /\ passes[1] = 0
    /\ passes[2] = 1
    /\ \E k \in 1..Len(log_file) : log_file[k].kind = "error"

(***************************************************************************)
(* C16.  Recording diagnostics has no effect on planning: when the walk of *)
(* a file ends, the nodes visited and the insertions recorded are those of *)
(* the walk computed from the tree and the source alone, whether the log   *)
(* stream is good or failed (so two walks that differ only in the stream   *)
(* visit the same nodes and record the same insertions), and every step   *)
(* of the walk leaves the program in the walk or at its end: writing a     *)
(* diagnostic never aborts it.                                             *)
(***************************************************************************)
\* The nodes traverse_and_print runs its loop body on when called on n.
RECURSIVE WalkFrom(_, _, _)
WalkFrom(t, src, n) ==
    IF ts_node_is_null(n) THEN <<>>
    ELSE <<n>>
           \o (IF NodeOutcome(t, src, n).children
               THEN WalkFrom(t, src, ts_node_named_child(t, n, 0))
               ELSE <<>>)
           \o WalkFrom(t, src, NodeOutcome(t, src, n).next)

RECURSIVE EditsOfNodes(_, _, _)
EditsOfNodes(t, src, nodes) ==
    IF nodes = <<>> THEN <<>>
    ELSE NodeOutcome(t, src, nodes[1]).edits \o EditsOfNodes(t, src, Tail(nodes))

VisitedNodes == [i \in 1..Len(visited) |-> visited[i].node]

C16_DiagnosticsDoNotAffectPlanning ==
    [][/\ pc' = "sort" /\ tree' # NullTree =>
          /\ VisitedNodes' = WalkFrom(tree', source_code', RootNode)
          /\ insertions' = EditsOfNodes(tree', source_code', VisitedNodes')
       /\ pc = "traverse" => pc' \in {"traverse", "sort"}]_vars

\* A walk ends with the log stream failed: a diagnostic and an insertion were
\* produced, nothing reached the log.
C16_Witness ==
    /\ pc = "sort"
    /\ tree # NullTree
    /\ ~log_ok
    /\ log_file = <<>>
    /\ insertions # <<>>
    /\ \E i \in 1..Len(visited) : visited[i].errors > 0

(***************************************************************************)
(* C17.  No I/O inside the walk: from the start of the traversal of a file *)
(* to the end of the application of its insertions, no step reads a source *)
(* file, writes a source file or a backup, or writes a line to the log.    *)
(***************************************************************************)
\* The walk of the current file has started and its insertions are not all applied.
InWalkOrApply ==
    pc = "traverse" \/ pc = "sort" \/ (pc = "apply" /\ ai <= Len(insertions))

C17_NoIOInsideWalk ==
    [][InWalkOrApply => /\ disk' = disk
                        /\ backup' = backup
                        /\ pc' # "parse"
                        /\ log_file' = log_file]_vars

\* C17 for the source files alone: log lines are written during the walk.
C17_NoFileIOInsideWalk ==
    [][InWalkOrApply => /\ disk' = disk
                        /\ backup' = backup
                        /\ pc' # "parse"
                        /\ (source_code' # source_code => pc = "apply")]_vars

\* In the middle of a walk the log already holds a diagnostic of this walk,
\* and the file still holds the bytes that were read.
C17_Witness ==
    /\ pc = "traverse"
    /\ stack # <<>>
    /\ tree # NullTree
    /\ log_file # <<>>
    /\ log_file[Len(log_file)].kind = "error"
    /\ \E i \in 1..Len(visited) : visited[i].errors > 0
    /\ disk[fi] = source_code

(***************************************************************************)
(* C18.  Files are independent: the walk of a file starts with an empty    *)
(* insertion list, on the tree of the bytes read from that file; every     *)
(* insertion in the list is one that a node of that tree produces from     *)
(* those bytes; and a step changes the bytes of no file other than the     *)
(* file of the current iteration of the loop.                              *)
(***************************************************************************)
C18_FilesAreIndependent ==
    /\ [](pc \in {"traverse", "sort", "apply"} /\ tree # NullTree =>
             /\ tree = ParseTree(disk[fi])
             /\ \A k \in 1..Len(insertions) :
                   \E i \in 1..Len(visited) :
                       NodeOutcome(tree, disk[fi], visited[i].node).edits
                         = <<insertions[k]>>)
    /\ [][/\ pc # "traverse" /\ pc' = "traverse" => insertions' = <<>>
          /\ \A j \in 1..NumFiles : disk'[j] # disk[j] => j = fi]_vars

\* The insertions of the second file are being applied after the first file
\* was overwritten with its own insertions.
C18_Witness ==
    /\ pc = "apply"
    /\ fi = 2
    /\ tree # NullTree
    /\ ai > 1
    /\ disk[1] # backup[run][1]
    /\ disk[2] = backup[run][2]

(***************************************************************************)
(* C19.  Recursion whatever the outcome: after the loop body has run on a  *)
(* function_definition node, the next node it runs on is that node's first *)
(* named child, whatever the outcome of the checks; so when the walk ends, *)
(* every function_definition below a visited function_definition has been  *)
(* visited too.                                                            *)
(***************************************************************************)
RECURSIVE NodesUnder(_, _)
NodesUnder(t, n) ==
    {n} \cup UNION {NodesUnder(t, n \o <<k>>) : k \in 1..ts_node_child_count(t, n)}

WasVisited(n) == \E j \in 1..Len(visited) : visited[j].node = n

C19_RecursesWhateverTheOutcome ==
    pc \in {"traverse", "sort"} /\ tree # NullTree =>
        \A i \in VisitedFunctions :
            /\ ~ts_node_is_null(ts_node_named_child(tree, visited[i].node, 0)) =>
                  IF i < Len(visited)
                  THEN visited[i + 1].node = ts_node_named_child(tree, visited[i].node, 0)
                  ELSE pc = "traverse"
            /\ pc = "sort" =>
                  \A m \in NodesUnder(tree, visited[i].node) :
                      IsFunction(tree, m) => WasVisited(m)

(***************************************************************************)
(* C20.  Order of the checks: constexpr, declarator, name, parameter list, *)
(* body, one-line name, marker.  A visited function that fails two or more *)
(* of them adds no insertion and writes exactly the diagnostic of the      *)
(* first check it fails in this order (nothing of a later check).          *)
(* Each check is the test main.cpp makes, taken on its own.                *)
(***************************************************************************)
FunctionDeclaratorsOf(t, n) ==
    {n \o <<i>> : i \in FirstLevel(t, n, "function_declarator")}

HasBody(t, n) ==
    \E b \in 1..ts_node_child_count(t, n) :
        NodeAt(t, n).children[b].type = "compound_statement"

HasNameField(t, n) ==
    \E d \in FunctionDeclaratorsOf(t, n) :
        \E i \in 1..ts_node_child_count(t, d) : NodeAt(t, d).children[i].field = "declarator"

FailsCheck(t, src, n, k) ==
    CASE k = 1 -> /\ FirstLevel(t, n, "type_qualifier") # {}
                  /\ LET quals == FirstLevel(t, n, "type_qualifier")
                         q == CHOOSE i \in quals : \A j \in quals : i <= j
                     IN  NodeCode(t, src, n \o <<q>>) = CONSTEXPR_TEXT
      [] k = 2 -> FunctionDeclaratorsOf(t, n) = {}
      [] k = 3 -> \A d \in FunctionDeclaratorsOf(t, n) :
                     \A ty \in {"identifier", "field_identifier", "qualified_identifier"} :
                        FirstLevel(t, d, ty) = {}
      [] k = 4 -> \A d \in FunctionDeclaratorsOf(t, n) :
                     FirstLevel(t, d, "parameter_list") = {}
      [] k = 5 -> ~HasBody(t, n)
      [] k = 6 -> HasNameField(t, n) /\ ~NameIsOneLine(t, src, n)
      [] k = 7 -> /\ HasBody(t, n)
                  /\ ts_node_child_count(t, BodyOf(t, n)) > 1
                  /\ \E p \in 0..Len(src) :
                        /\ p >= NodeAt(t, BodyOf(t, n) \o <<2>>).start
                        /\ p + Len(MARKER) <= NodeAt(t, BodyOf(t, n) \o <<2>>).end
                        /\ SubSeq(src, p + 1, p + Len(MARKER)) = MARKER

FailedChecks(t, src, n) == {k \in 1..7 : FailsCheck(t, src, n, k)}

FirstFailedCheck(t, src, n) ==
    CHOOSE k \in FailedChecks(t, src, n) : \A j \in FailedChecks(t, src, n) : k <= j

\* What a check writes when it is the one that fails.
MessagesOfCheck(k) ==
    CASE k = 1 -> <<"constexpr can't trace">>
      [] k = 2 -> <<"function_declarator">>
      [] k = 3 -> <<"identifier">>
      [] k = 4 -> <<"parameter_list">>
      [] k = 5 -> <<"compound_statement">>
      [] k = 6 -> <<"function_name multiline">>
      [] k = 7 -> <<>>

C20_FirstFailingCheckDecides ==
    pc = "traverse" /\ tree # NullTree =>
        \A i \in VisitedFunctions :
            Cardinality(FailedChecks(tree, source_code, visited[i].node)) >= 2 =>
                /\ visited[i].edits = 0
                /\ visited[i].msgs
                     = MessagesOfCheck(FirstFailedCheck(tree, source_code, visited[i].node))

\* Visited: a function that fails both the one-line-name check and the marker
\* check, and the diagnostic written is that of the one-line-name check.
C20_Witness ==
    /\ pc = "traverse"
    /\ tree # NullTree
    /\ \E i \in VisitedFunctions :
          /\ {6, 7} \subseteq FailedChecks(tree, source_code, visited[i].node)
          /\ visited[i].msgs = <<"function_name multiline">>

(***************************************************************************)
(* C21.  Already instrumented means "begins with the marker": a visited    *)
(* function that reaches the marker test (it passes the five presence      *)
(* checks, its body has more than one child, its name is on one line) is   *)
(* skipped without an insertion exactly when the source text at its        *)
(* insertion point, the start of the body's child at index 1, begins with  *)
(* the marker; a marker further inside that child does not count.          *)
(***************************************************************************)
ReachesMarkerTest(t, src, n) ==
    /\ PassesStructuralChecks(t, src, n)
    /\ ts_node_child_count(t, BodyOf(t, n)) > 1
    /\ NameIsOneLine(t, src, n)

\* The source text from the insertion point of the function to the end.
TextAtInsertionPoint(t, src, n) ==
    SubSeq(src, NodeAt(t, BodyOf(t, n) \o <<2>>).start + 1, Len(src))

C21_InstrumentedIffBeginsWithMarker ==
    pc = "traverse" /\ tree # NullTree =>
        \A i \in VisitedFunctions :
            ReachesMarkerTest(tree, source_code, visited[i].node) =>
                (visited[i].edits = 0
                   <=> StartsWith(TextAtInsertionPoint(tree, source_code, visited[i].node),
                                  MARKER))

(***************************************************************************)
(* C22.  Empty bodies: a visited function whose body holds nothing between *)
(* its "{" and its "}" adds no insertion.                                  *)
(***************************************************************************)
\* The body of the function is "{}": its children are the two delimiters.
EmptyBody(t, src, n) ==
    /\ HasBody(t, n)
    /\ NodeCode(t, src, BodyOf(t, n)) = <<"{", "}">>

DirectlyNestedFunctions(t, n) ==
    {m \in NodesUnder(t, n) :
        /\ m # n
        /\ IsFunction(t, m)
        /\ \A k \in (Len(n) + 1)..(Len(m) - 1) : ~IsFunction(t, SubSeq(m, 1, k))}

\* The visit i was rejected for its missing declarator and the walk went into it.
RejectedAndTraversed(i) ==
    /\ visited[i].edits = 0
    /\ visited[i].msgs = <<"function_declarator">>
    /\ IF i < Len(visited)
       THEN visited[i + 1].node = ts_node_named_child(tree, visited[i].node, 0)
       ELSE pc = "traverse"
    /\ pc = "sort" =>
          \A m \in DirectlyNestedFunctions(tree, visited[i].node) :
              \E j \in 1..Len(visited) :
                  /\ visited[j].node = m
                  /\ Instrumentable(tree, source_code, m) => visited[j].edits = 1

C23_NoDeclaratorStillTraverses ==
    pc \in {"traverse", "sort"} /\ tree # NullTree =>
        \A i \in VisitedFunctions :
            FailsCheck(tree, source_code, visited[i].node, 2) => RejectedAndTraversed(i)

\* C23 for the functions that pass the constexpr check, which stands first.
C23_NoDeclaratorStillTraversesUnlessConstexpr ==
    pc \in {"traverse", "sort"} /\ tree # NullTree =>
        \A i \in VisitedFunctions :
            /\ FailsCheck(tree, source_code, visited[i].node, 2)
            /\ ~FailsCheck(tree, source_code, visited[i].node, 1)
            => RejectedAndTraversed(i)

\* The walk has ended: a function without a declarator was rejected and a
\* function nested in it has its insertion.
C23_Witness ==
    /\ pc = "sort"
    /\ tree # NullTree
    /\ \E i \in VisitedFunctions :
          /\ FailsCheck(tree, source_code, visited[i].node, 2)
          /\ visited[i].msgs = <<"function_declarator">>
          /\ \E m \in DirectlyNestedFunctions(tree, visited[i].node) :
                \E j \in 1..Len(visited) : visited[j].node = m /\ visited[j].edits = 1

PreOrderBefore(a, b) ==
    \/ Len(a) < Len(b) /\ SubSeq(b, 1, Len(a)) = a
    \/ \E k \in 1..Min(Len(a), Len(b)) :
          /\ SubSeq(a, 1, k - 1) = SubSeq(b, 1, k - 1)
          /\ a[k] < b[k]

\* The visits whose function produces the insertion e.
VisitsOfEdit(e) ==
    {i \in VisitedFunctions : NodeOutcome(tree, source_code, visited[i].node).edits = <<e>>}

C25_EditsInTraversalOrder ==
    /\ [](pc \in {"traverse", "sort"} /\ tree # NullTree =>
             /\ \A i, j \in 1..Len(visited) :
                   i < j => PreOrderBefore(visited[i].node, visited[j].node)
             /\ \A k, l \in 1..Len(insertions) :
                   k < l => \E i \in VisitsOfEdit(insertions[k]) :
                               \E j \in VisitsOfEdit(insertions[l]) : i < j)
    /\ [][pc = "traverse" =>
             /\ Len(insertions') >= Len(insertions)
             /\ SubSeq(insertions', 1, Len(insertions)) = insertions]_vars

\* The walk has ended with the insertions of two functions, the outer one first
\* although its offset is the smaller one.
C25_Witness ==
    /\ pc = "sort"
    /\ tree # NullTree
    /\ Len(insertions) = 2
    /\ insertions[1].first < insertions[2].first
    /\ \E i \in VisitsOfEdit(insertions[1]) :
          \E j \in VisitsOfEdit(insertions[2]) :
              visited[j].node \in NodesUnder(tree, visited[i].node)

(***************************************************************************)
(* C26.  Layout of the result: when every insertion of a file has been     *)
(* applied, for each function that was given an insertion the "{" of its   *)
(* body is followed in the buffer by the bytes that stood between the "{"  *)
(* and the first child in the file, then the trace statement of the        *)
(* function, then the same bytes again, then the first byte of the         *)
(* original first child.  The "{" stands where the insertions with a       *)
(* smaller offset have moved it.                                           *)
(***************************************************************************)
\* The total length of the texts inserted before byte offset c of the file.
ShiftBefore(c) ==
    SumTextLen(SelectSeq(insertions, LAMBDA e : e.first < c))

\* What the buffer holds from the "{" of the body of n on, per the claim.
ExpectedBodyStart(t, src, n) ==
    <<"{">> \o BytesBeforeFirstStatement(t, src, n)
            \o MARKER \o <<"(">> \o NameOf(t, src, n) \o <<")", ";">>
            \o BytesBeforeFirstStatement(t, src, n)
            \o <<src[NodeAt(t, BodyOf(t, n) \o <<2>>).start + 1]>>

C26_TraceIsFirstStatementWithIndentation ==
    ApplyDone /\ tree # NullTree =>
        \A i \in VisitedFunctions :
            visited[i].edits = 1 =>
                LET n == visited[i].node
                    open == NodeAt(tree, BodyOf(tree, n)).start
                              + ShiftBefore(NodeAt(tree, BodyOf(tree, n) \o <<2>>).start)
                    want == ExpectedBodyStart(tree, disk[fi], n)
                IN  SubSeq(source_code, open + 1, open + Len(want)) = want

\* Two functions of one file, one nested in the other, have their trace
\* statements in the buffer; the outer body has a blank before its first child.
C26_Witness ==
    /\ ApplyDone
    /\ tree # NullTree
    /\ Len(insertions) = 2
    /\ \E i, j \in VisitedFunctions :
          /\ visited[i].edits = 1
          /\ visited[j].edits = 1
          /\ visited[j].node \in NodesUnder(tree, visited[i].node) \ {visited[i].node}
          /\ BytesBeforeFirstStatement(tree, disk[fi], visited[i].node) = <<" ">>

(***************************************************************************)
(* C27.  Termination, each node once: during a walk no node is visited     *)
(* twice and every visited node is a named node of the tree; the number of *)
(* named nodes not yet visited, counted twice, plus the number of active   *)
(* calls of traverse_and_print is never negative and goes down with every  *)
(* step of the walk, so the walk of a finite tree ends.                    *)
(***************************************************************************)
NamedNodes(t) == {n \in NodesUnder(t, RootNode) : NodeAt(t, n).named}

WalkMeasure == 2 * (Cardinality(NamedNodes(tree)) - Len(visited)) + Len(stack)

C27_WalkTerminatesEachNodeOnce ==
    /\ [](pc \in {"traverse", "sort"} =>
             /\ \A i, j \in 1..Len(visited) :
                   i # j => visited[i].node # visited[j].node
             /\ \A i \in 1..Len(visited) : visited[i].node \in NamedNodes(tree)
             /\ WalkMeasure >= 0)
    /\ [][pc = "traverse" => WalkMeasure' < WalkMeasure]_vars

\* A walk has ended in which a rejection walked the children of the rejected
\* function, and a function below it was visited.
C27_Witness ==
    /\ pc = "sort"
    /\ tree # NullTree
    /\ \E i, j \in VisitedFunctions :
          /\ i < j
          /\ visited[i].msgs = <<"function_declarator">>
          /\ visited[j].node \in NodesUnder(tree, visited[i].node)

(***************************************************************************)
(* C28.  Offsets of the walk are in range: every insertion in the list of  *)
(* a walked file belongs to a visited function, and its offset lies after  *)
(* the "{" of the body of that function, not past the end of the body and  *)
(* not past the end of the bytes read; and no insert of the list throws.   *)
(***************************************************************************)
C28_PlannerOffsetsInRange ==
    /\ pc \in {"traverse", "sort", "apply"} /\ tree # NullTree =>
          \A k \in 1..Len(insertions) :
              /\ insertions[k].first <= Len(disk[fi])
              /\ \E i \in VisitedFunctions :
                    LET n == visited[i].node
                    IN  /\ NodeOutcome(tree, disk[fi], n).edits = <<insertions[k]>>
                        /\ insertions[k].first > NodeAt(tree, BodyOf(tree, n)).start
                        /\ insertions[k].first <= NodeAt(tree, BodyOf(tree, n)).end
    /\ pc = "apply" /\ ai <= Len(insertions) =>
          ~InsertThrows(source_code, insertions[ai].first)

\* The insertion about to be made stands at the last byte of the file: the
\* "}" of an empty body that ends the file.
C28_Witness ==
    /\ pc = "apply"
    /\ tree # NullTree
    /\ ai = 1
    /\ Len(insertions) >= 1
    /\ insertions[1].first = Len(disk[fi]) - 1
    /\ source_code = disk[fi]

(***************************************************************************)
(* C29.  Failure on the first insert: when the list holds an insertion     *)
(* whose offset is beyond the length of the bytes read, the insert that    *)
(* throws is the first of the sorted list: the buffer still equals the     *)
(* bytes read and the file on disk still holds the bytes that were backed  *)
(* up; once one insertion of a list has been made, no later insertion of   *)
(* that list throws.                                                       *)
(***************************************************************************)
C29_FailsOnFirstInsertOnly ==
    /\ pc \in {"apply", "terminated"} /\ OutOfRange =>
          /\ ai = 1
          /\ source_code = disk[fi]
          /\ disk[fi] = backup[1][fi]
    /\ pc = "apply" /\ 1 < ai /\ ai <= Len(insertions) =>
          ~InsertThrows(source_code, insertions[ai].first)

\* The first insert of a list of three has thrown: the list also holds
\* insertions inside the buffer, none of which was made.
C29_Witness ==
    /\ pc = "terminated"
    /\ Len(insertions) = 3
    /\ ai = 1
    /\ insertions[2].first <= Len(disk[fi])
    /\ insertions[3].first < insertions[2].first
    /\ source_code = disk[fi]

(***************************************************************************)
(* C30.  A file that cannot be opened is skipped: the step in which the    *)
(* open fails reads, parses and writes nothing and leaves main() in its    *)
(* loop at the next file; for the rest of the run the file is never the    *)
(* file of the loop again and keeps the bytes that were backed up; and a   *)
(* run that returns 0 has opened, or tried to open, every file.            *)
(***************************************************************************)
Skipped == {i \in 1..NumFiles : opened[i] = "skipped"}

C30_UnopenableFileIsSkipped ==
    /\ [](\A i \in Skipped :
             /\ i < fi
             /\ Len(backup) = run
             /\ disk[i] = backup[run][i])
    /\ [](pc = "exit" /\ exit_code = 0 => \A i \in 1..NumFiles : opened[i] # "none")
    /\ [][\A i \in 1..NumFiles :
             opened[i] # "skipped" /\ opened'[i] = "skipped" =>
                 /\ i = fi
                 /\ pc' = "loop"
                 /\ fi' = fi + 1
                 /\ disk' = disk
                 /\ passes' = passes
                 /\ source_code' = <<>>
                 /\ tree' = NullTree]_vars

\* The first file could not be opened; the second file has been read, walked
\* and given an insertion, which is now being applied.
C30_Witness ==
    /\ NumFiles = 2
    /\ opened[1] = "skipped"
    /\ fi = 2
    /\ opened[2] = "read"
    /\ pc = "apply"
    /\ tree # NullTree
    /\ ai > 1

====
